---- MODULE Spec2Model ----
(***************************************************************************)
(* Model of sitemap_catalog_exporter.py: the sitemap tree crawl            *)
(* (crawl_sitemap_tree), the URL filter (url_passes_filters) and the       *)
(* product phase of main().                                                *)
(*                                                                         *)
(* Strings are sequences of one-character strings, so that strip(),        *)
(* lower() and the substring test `in` are computed, not assumed.          *)
(***************************************************************************)
EXTENDS Integers, Sequences, FiniteSets, TLC

VARIABLES
    pc,             \* position of the program
    web,            \* sitemap documents the site has served so far (url -> response)
    sitemap_url,    \* crawl_sitemap_tree argument
    max_sitemaps,   \* crawl_sitemap_tree argument
    max_urls,       \* crawl_sitemap_tree argument
    polite_delay_s, \* crawl_sitemap_tree argument
    to_visit,       \* work list (Python list used as a stack)
    visited,        \* set of sitemap URLs already dequeued
    all_urls,       \* accumulated leaf URLs
    warn,           \* which [WARN] bound message was printed: "none", "max_sitemaps", "max_urls"
    deduped,        \* value returned by crawl_sitemap_tree
    trace,          \* calls made to the collaborators fetch_text and time.sleep, in order
    fc,             \* FilterConfig
    currency_override, \* meta["currency_override"]
    in_stock_only,
    polite_delay,
    max_products,
    filtered,       \* candidate URLs of main()
    done,           \* number of candidates the product loop has finished
    rows,           \* records collected by main()
    errors,         \* error counter of main()
    outcomes,       \* what the page fetch/parse of each finished candidate produced
    probe,          \* url argument of a direct url_passes_filters call
    verdict,        \* value returned by that call
    page,           \* parsed page (soup) argument of a direct call of the extractors
    url_parts,      \* path segments the url argument of guess_category_from_url was written from
    extracted       \* values returned by the extractors

vars == <<pc, web, sitemap_url, max_sitemaps, max_urls, polite_delay_s, to_visit,
          visited, all_urls, warn, deduped, trace, fc, currency_override,
          in_stock_only, polite_delay, max_products, filtered, done, rows, errors,
          outcomes, probe, verdict, page, url_parts, extracted>>

crawlVars == <<web, sitemap_url, max_sitemaps, max_urls, polite_delay_s, to_visit,
               visited, all_urls, warn, deduped>>
configVars == <<fc, currency_override, in_stock_only, polite_delay, max_products>>
mainVars == <<filtered, done, rows, errors, outcomes>>
filterVars == <<probe, verdict>>
extractVars == <<page, url_parts, extracted>>

----------------------------------------------------------------------------
(* Bounds of the model *)

MaxLocs == 2         \* <loc> entries per sitemap document

----------------------------------------------------------------------------
(* Strings *)

Range(s) == {s[i] : i \in 1..Len(s)}

SeqsUpTo(S, n) == UNION {[1..k -> S] : k \in 0..n}

Whitespace == {" ", "\t", "\n", "\r"}

Uppers == <<"A","B","C","D","E","F","G","H","I","J","K","L","M",
            "N","O","P","Q","R","S","T","U","V","W","X","Y","Z">>
Lowers == <<"a","b","c","d","e","f","g","h","i","j","k","l","m",
            "n","o","p","q","r","s","t","u","v","w","x","y","z">>

LowerChar(c) ==
    IF \E i \in 1..26 : Uppers[i] = c
    THEN Lowers[CHOOSE i \in 1..26 : Uppers[i] = c]
    ELSE c

\* str.lower()
Lower(s) == [i \in 1..Len(s) |-> LowerChar(s[i])]

\* str.strip()
Strip(s) ==
    LET keep == {i \in 1..Len(s) : s[i] \notin Whitespace}
    IN  IF keep = {} THEN <<>>
        ELSE LET lo == CHOOSE i \in keep : \A j \in keep : i <= j
                 hi == CHOOSE i \in keep : \A j \in keep : j <= i
             IN  SubSeq(s, lo, hi)

\* the Python test `p in s` on strings
Contains(s, p) ==
    \E i \in 1..(Len(s) - Len(p) + 1) : SubSeq(s, i, i + Len(p) - 1) = p

----------------------------------------------------------------------------
(* The site: sitemap documents as fetch_text returns them *)

SmRoot == <<"r">>
SmA == <<"a">>
SmB == <<"b">>
SmBPadded == <<" ","b","\n">>    \* the same location, written with whitespace around it

SitemapUrls == {SmRoot, SmA, SmB}
RawSitemapLocs == {SmA, SmBPadded}

U1 == <<"/","p","/","a">>
U2 == <<"/","P","/","b">>
U3 == <<"/","b","l","o","g","/","p","/","c">>

PageUrls == {U1, U2, U3}

HeadUrlset == <<"<","u","r","l","s","e","t">>
HeadIndex == <<"<","s","i","t","e","m","a","p","i","n","d","e","x">>
HeadIndexMixed == <<"<","S","i","t","e","m","a","p","I","n","d","e","x">>
IndexMarker == <<"<","s","i","t","e","m","a","p","i","n","d","e","x">>

\* fetch_text raised (requests error or HTTP error status)
FetchError == [ok |-> FALSE, head |-> <<>>, bodies |-> <<>>]

\* A document is its root tag and the text found between each <loc> and </loc>.
IndexDocs == [ok : {TRUE}, head : {HeadIndexMixed},
              bodies : SeqsUpTo(RawSitemapLocs, MaxLocs)]
LeafDocs == [ok : {TRUE}, head : {HeadUrlset}, bodies : SeqsUpTo(PageUrls, MaxLocs)]
Docs == {FetchError} \cup IndexDocs \cup LeafDocs

DefaultMaxSitemaps == 500
DefaultMaxUrls == 500000

----------------------------------------------------------------------------
(* Collaborator calls, recorded in the order the program makes them *)

FetchCall(u) == [op |-> "fetch", by |-> "crawl_sitemap_tree", url |-> u, secs |-> 0]
SleepCall(d) == [op |-> "sleep", by |-> "crawl_sitemap_tree", url |-> <<>>, secs |-> d]

\* if polite_delay_s > 0: time.sleep(polite_delay_s)
SleepIfPositive(tr, d) == IF d > 0 THEN Append(tr, SleepCall(d)) ELSE tr

\* the URLs crawl_sitemap_tree passed to fetch_text so far, in order
FetchedUrls(tr) ==
    LET f == SelectSeq(tr, LAMBDA e : e.op = "fetch" /\ e.by = "crawl_sitemap_tree")
    IN  [i \in 1..Len(f) |-> f[i].url]

----------------------------------------------------------------------------
(* crawl_sitemap_tree *)

\* re.findall(r"<loc>\s*(.*?)\s*</loc>", xml_text): the group excludes the
\* whitespace around the location
extract_locs_from_xml(xml) == [i \in 1..Len(xml.bodies) |-> Strip(xml.bodies[i])]

is_sitemap_index(xml) == Contains(Lower(xml.head), IndexMarker)

normalize_url(u) == Strip(u)

\* locs = [normalize_url(x) for x in extract_locs_from_xml(xml)]
LocsOf(xml) ==
    LET found == extract_locs_from_xml(xml)
    IN  [i \in 1..Len(found) |-> normalize_url(found[i])]

\* (mutant) the oldest entry is served
PopItemOldest(stack) == stack[1]

\* sm = to_visit.pop()
PopItem(stack) == stack[Len(stack)]

\* (mutant) the served entry stays on the work list
PopRestKeepsEntry(stack) == stack

PopRest(stack) == SubSeq(stack, 1, Len(stack) - 1)

\* (mutant) the visited test is lost
AlreadyVisitedNever(sm, seen) == FALSE

\* if sm in visited: continue
AlreadyVisited(sm, seen) == sm \in seen

\* (mutant) >= instead of >
OverMaxSitemapsOffByOne(seen, cap) == Cardinality(seen) >= cap

\* if len(visited) > max_sitemaps
OverMaxSitemaps(seen, cap) == Cardinality(seen) > cap

\* (mutant) the children are pushed last-listed first
PushChildrenReversed(stack, locs, seen) ==
    LET kept == SelectSeq(locs, LAMBDA c : c \notin seen)
    IN  stack \o [i \in 1..Len(kept) |-> kept[Len(kept) + 1 - i]]

\* (mutant) only the last unvisited child is pushed
PushChildrenLastOnly(stack, locs, seen) ==
    LET kept == SelectSeq(locs, LAMBDA c : c \notin seen)
    IN  IF kept = <<>> THEN stack ELSE Append(stack, kept[Len(kept)])

\* for child in locs: if child not in visited: to_visit.append(child)
PushChildren(stack, locs, seen) == stack \o SelectSeq(locs, LAMBDA c : c \notin seen)

\* if len(all_urls) >= max_urls
ReachedMaxUrls(acc, cap) == Len(acc) >= cap

\* (mutant) the slice is forgotten
TruncateNothing(acc, cap) == acc

\* all_urls[:max_urls]
Truncate(acc, cap) == SubSeq(acc, 1, IF cap < Len(acc) THEN cap ELSE Len(acc))

\* the deduplication loop: keep an entry iff no equal entry precedes it
RECURSIVE DedupeFrom(_, _, _)
DedupeFrom(acc, seen, out) ==
    IF acc = <<>> THEN out
    ELSE IF Head(acc) \in seen
         THEN DedupeFrom(Tail(acc), seen, out)
         ELSE DedupeFrom(Tail(acc), seen \cup {Head(acc)}, Append(out, Head(acc)))

\* (mutant) the last occurrence wins
RECURSIVE DedupeKeepLast(_)
DedupeKeepLast(acc) ==
    IF acc = <<>> THEN <<>>
    ELSE LET front == SubSeq(acc, 1, Len(acc) - 1)
             last == acc[Len(acc)]
         IN  Append(DedupeKeepLast(SelectSeq(front, LAMBDA u : u # last)), last)

Dedupe(acc) == DedupeFrom(acc, {}, <<>>)

\* fetch_text(sm): the site answers a URL it has answered before the same way
Responses(sm) == IF sm \in DOMAIN web THEN {web[sm]} ELSE Docs
Served(sm, r) == IF sm \in DOMAIN web THEN web ELSE web @@ (sm :> r)

CrawlSkipVisited ==
    /\ pc = "crawl"
    /\ to_visit # <<>>
    /\ AlreadyVisited(PopItem(to_visit), visited)
    /\ to_visit' = PopRest(to_visit)
    /\ UNCHANGED <<pc, web, sitemap_url, max_sitemaps, max_urls, polite_delay_s,
                   visited, all_urls, warn, deduped, trace>>
    /\ UNCHANGED <<configVars, mainVars, filterVars, extractVars>>

CrawlStopMaxSitemaps ==
    /\ pc = "crawl"
    /\ to_visit # <<>>
    /\ ~AlreadyVisited(PopItem(to_visit), visited)
    /\ OverMaxSitemaps(visited \cup {PopItem(to_visit)}, max_sitemaps)
    /\ to_visit' = PopRest(to_visit)
    /\ visited' = visited \cup {PopItem(to_visit)}
    /\ warn' = "max_sitemaps"
    /\ pc' = "dedupe"
    /\ UNCHANGED <<web, sitemap_url, max_sitemaps, max_urls, polite_delay_s,
                   all_urls, deduped, trace>>
    /\ UNCHANGED <<configVars, mainVars, filterVars, extractVars>>

\* the common part of the iterations that reach fetch_text
CrawlFetch(sm, r) ==
    /\ sm = PopItem(to_visit)
    /\ ~AlreadyVisited(sm, visited)
    /\ ~OverMaxSitemaps(visited \cup {sm}, max_sitemaps)
    /\ web' = Served(sm, r)
    /\ visited' = visited \cup {sm}
    /\ UNCHANGED <<sitemap_url, max_sitemaps, max_urls, polite_delay_s, deduped>>
    /\ UNCHANGED <<configVars, mainVars, filterVars, extractVars>>

\* (mutant) a failed fetch leaves the loop (break instead of continue)
CrawlFetchFailedAborts ==
    /\ pc = "crawl"
    /\ to_visit # <<>>
    /\ \E r \in Responses(PopItem(to_visit)) :
        /\ CrawlFetch(PopItem(to_visit), r)
        /\ ~r.ok
        /\ to_visit' = PopRest(to_visit)
        /\ trace' = Append(trace, FetchCall(PopItem(to_visit)))
        /\ pc' = "dedupe"
        /\ UNCHANGED <<all_urls, warn>>

CrawlFetchFailed ==
    /\ pc = "crawl"
    /\ to_visit # <<>>
    /\ \E r \in Responses(PopItem(to_visit)) :
        /\ CrawlFetch(PopItem(to_visit), r)
        /\ ~r.ok
        /\ to_visit' = PopRest(to_visit)
        /\ trace' = Append(trace, FetchCall(PopItem(to_visit)))
        /\ UNCHANGED <<pc, all_urls, warn>>

CrawlNoLocs ==
    /\ pc = "crawl"
    /\ to_visit # <<>>
    /\ \E r \in Responses(PopItem(to_visit)) :
        /\ CrawlFetch(PopItem(to_visit), r)
        /\ r.ok
        /\ LocsOf(r) = <<>>
        /\ to_visit' = PopRest(to_visit)
        /\ trace' = Append(trace, FetchCall(PopItem(to_visit)))
        /\ UNCHANGED <<pc, all_urls, warn>>

CrawlIndex ==
    /\ pc = "crawl"
    /\ to_visit # <<>>
    /\ \E r \in Responses(PopItem(to_visit)) :
        /\ CrawlFetch(PopItem(to_visit), r)
        /\ r.ok
        /\ LocsOf(r) # <<>>
        /\ is_sitemap_index(r)
        /\ to_visit' = PushChildren(PopRest(to_visit), LocsOf(r), visited')
        /\ trace' = SleepIfPositive(Append(trace, FetchCall(PopItem(to_visit))),
                                    polite_delay_s)
        /\ UNCHANGED <<pc, all_urls, warn>>

CrawlLeaf ==
    /\ pc = "crawl"
    /\ to_visit # <<>>
    /\ \E r \in Responses(PopItem(to_visit)) :
        /\ CrawlFetch(PopItem(to_visit), r)
        /\ r.ok
        /\ LocsOf(r) # <<>>
        /\ ~is_sitemap_index(r)
        /\ ~ReachedMaxUrls(all_urls \o LocsOf(r), max_urls)
        /\ all_urls' = all_urls \o LocsOf(r)
        /\ to_visit' = PopRest(to_visit)
        /\ trace' = SleepIfPositive(Append(trace, FetchCall(PopItem(to_visit))),
                                    polite_delay_s)
        /\ UNCHANGED <<pc, warn>>

CrawlLeafStopMaxUrls ==
    /\ pc = "crawl"
    /\ to_visit # <<>>
    /\ \E r \in Responses(PopItem(to_visit)) :
        /\ CrawlFetch(PopItem(to_visit), r)
        /\ r.ok
        /\ LocsOf(r) # <<>>
        /\ ~is_sitemap_index(r)
        /\ ReachedMaxUrls(all_urls \o LocsOf(r), max_urls)
        /\ all_urls' = Truncate(all_urls \o LocsOf(r), max_urls)
        /\ to_visit' = PopRest(to_visit)
        /\ trace' = Append(trace, FetchCall(PopItem(to_visit)))
        /\ warn' = "max_urls"
        /\ pc' = "dedupe"

\* the while loop ended (empty work list, or break): deduplicate and return
CrawlReturn ==
    /\ \/ pc = "crawl" /\ to_visit = <<>>
       \/ pc = "dedupe"
    /\ deduped' = Dedupe(all_urls)
    /\ pc' = "returned"
    /\ UNCHANGED <<web, sitemap_url, max_sitemaps, max_urls, polite_delay_s,
                   to_visit, visited, all_urls, warn, trace>>
    /\ UNCHANGED <<configVars, mainVars, filterVars, extractVars>>

CrawlStep ==
    \/ CrawlSkipVisited
    \/ CrawlStopMaxSitemaps
    \/ CrawlFetchFailed
    \/ CrawlNoLocs
    \/ CrawlIndex
    \/ CrawlLeaf
    \/ CrawlLeafStopMaxUrls
    \/ CrawlReturn

----------------------------------------------------------------------------
(* crawl_sitemap_tree called on its own, with any bounds *)

MaxCap == 2          \* largest max_sitemaps / max_urls tried besides the defaults

SitemapCaps == 0..MaxCap \cup {DefaultMaxSitemaps}
UrlCaps == 0..MaxCap \cup {DefaultMaxUrls}
CrawlDelays == {0, 1}

\* include_keywords, exclude_keywords and must_contain_any are only ever tested
\* for truth and iterated, so None and [] are both the empty sequence here.
NoFilters == [product_marker |-> <<>>, include_keywords |-> <<>>,
              exclude_keywords |-> <<>>, must_contain_any |-> <<>>]

\* to_visit = [sitemap_url]; visited = set(); all_urls = []
CrawlEntry ==
    /\ pc = "crawl"
    /\ to_visit = <<sitemap_url>>
    /\ visited = {}
    /\ all_urls = <<>>
    /\ warn = "none"
    /\ deduped = <<>>
    /\ trace = <<>>

MainIdle ==
    /\ filtered = <<>>
    /\ done = 0
    /\ rows = <<>>
    /\ errors = 0
    /\ outcomes = <<>>

FilterIdle ==
    /\ probe = <<>>
    /\ verdict = FALSE

\* No direct call of an extractor is in progress.
ExtractIdle ==
    /\ page = <<>>
    /\ url_parts = <<>>
    /\ extracted = <<>>

InitCrawl ==
    /\ web = <<>>
    /\ sitemap_url = SmRoot
    /\ max_sitemaps \in SitemapCaps
    /\ max_urls \in UrlCaps
    /\ polite_delay_s \in CrawlDelays
    /\ CrawlEntry
    /\ fc = NoFilters
    /\ currency_override = <<>>
    /\ in_stock_only = FALSE
    /\ polite_delay = 0
    /\ max_products = 0
    /\ MainIdle
    /\ FilterIdle
    /\ ExtractIdle

NextCrawl == CrawlStep

SpecCrawl == InitCrawl /\ [][NextCrawl]_vars

----------------------------------------------------------------------------
(* Properties of crawl_sitemap_tree (checked under SpecCrawl) *)

NoDuplicates(s) == \A i, j \in 1..Len(s) : s[i] = s[j] => i = j

\* position of the first occurrence of u in s
FirstIndex(s, u) == CHOOSE i \in 1..Len(s) : s[i] = u /\ \A j \in 1..(i - 1) : s[j] # u

\* the sitemap documents fetched so far that were leaf documents with locations
FetchedLeaves ==
    {s \in Range(FetchedUrls(trace)) :
        s \in DOMAIN web /\ web[s].ok /\ LocsOf(web[s]) # <<>> /\ ~is_sitemap_index(web[s])}

\* C1: within one crawl no sitemap-document URL is passed to fetch_text more
\* than once, whatever the sitemap graph (cycles, self-references, a child
\* listed several times).
C1_NoSitemapFetchedTwice == NoDuplicates(FetchedUrls(trace))

\* a finished crawl that met a self-referencing index, a child listed twice in
\* one index and fetched all three documents
C1_Witness ==
    /\ pc = "returned"
    /\ Len(FetchedUrls(trace)) = 3
    /\ \E s \in DOMAIN web : web[s].ok /\ is_sitemap_index(web[s])
                             /\ s \in Range(LocsOf(web[s]))
    /\ \E s \in DOMAIN web : web[s].ok /\ is_sitemap_index(web[s])
                             /\ ~NoDuplicates(LocsOf(web[s]))

\* C2: the returned list has no duplicate, holds exactly the accumulated URLs,
\* and orders them by their first occurrence in the accumulated leaf-URL list.
C2_DedupedFirstOccurrenceOrder ==
    pc = "returned" =>
        /\ NoDuplicates(deduped)
        /\ Range(deduped) = Range(all_urls)
        /\ \A i, j \in 1..Len(deduped) :
               i < j <=> FirstIndex(all_urls, deduped[i]) < FirstIndex(all_urls, deduped[j])

\* leaf documents yielding [A, B, A, C] give [A, B, C]
C2_Witness ==
    /\ pc = "returned"
    /\ all_urls = <<U1, U2, U1, U3>>
    /\ deduped = <<U1, U2, U3>>

\* C3 as stated: whenever the maxUrls stop is taken, the returned list has
\* exactly maxUrls entries.
C3_ReturnedLengthIsMaxUrls ==
    (pc = "returned" /\ warn = "max_urls") => Len(deduped) = max_urls

\* C3 amended: when the maxUrls stop is taken, the accumulated list is cut to
\* exactly maxUrls entries and the returned list is that list deduplicated: it
\* has as many entries as there are distinct URLs among them, so at most maxUrls.
C3_ReturnedLengthAtMostMaxUrls ==
    (pc = "returned" /\ warn = "max_urls") =>
        /\ Len(all_urls) = max_urls
        /\ Len(deduped) = Cardinality(Range(all_urls))
        /\ Len(deduped) <= max_urls

\* the stop was taken on more entries than the cap, with a repeated URL
\* among the entries kept
C3_Witness ==
    /\ pc = "returned"
    /\ warn = "max_urls"
    /\ Len(trace) > 1
    /\ Len(deduped) < max_urls

\* C4: the traversal stops as soon as more than maxSitemaps documents are
\* visited: the document that made the count exceed the cap is not fetched,
\* no fetch follows, at most maxSitemaps fetches are made, and what the
\* fetched leaf documents yielded is returned, deduplicated.
C4_StopsAtMaxSitemaps ==
    /\ Len(FetchedUrls(trace)) <= max_sitemaps
    /\ Cardinality(visited) > max_sitemaps =>
           pc \in {"dedupe", "returned"} /\ warn = "max_sitemaps"
    /\ warn = "max_sitemaps" =>
           /\ Cardinality(visited) = max_sitemaps + 1
           /\ Len(FetchedUrls(trace)) = max_sitemaps
           /\ Range(FetchedUrls(trace)) \subseteq visited
           /\ Cardinality(visited \ Range(FetchedUrls(trace))) = 1
    /\ (warn = "max_sitemaps" /\ pc = "returned") =>
           /\ NoDuplicates(deduped)
           /\ Range(deduped) = UNION {Range(LocsOf(web[s])) : s \in FetchedLeaves}

\* the stop was taken after a leaf document had been accumulated, and the
\* document that exceeded the cap was never fetched
C4_Witness ==
    /\ pc = "returned"
    /\ warn = "max_sitemaps"
    /\ deduped # <<>>
    /\ \E s \in visited : s \notin Range(FetchedUrls(trace)) /\ s \notin DOMAIN web

\* the last call recorded in tr is a fetch that failed
LastFetchFailed(tr, w) ==
    /\ tr # <<>>
    /\ tr[Len(tr)].op = "fetch"
    /\ tr[Len(tr)].url \in DOMAIN w
    /\ ~w[tr[Len(tr)].url].ok

\* C6: a failed fetch of a sitemap document does not abort the crawl: the loop
\* goes on with the rest of the work list, the failing document adds no child
\* and no leaf URL, what was visited and accumulated is kept; and a crawl that
\* returns without a bound stop has emptied its work list.
C6_FailedFetchIsSkipped ==
    [][ /\ (pc = "crawl" /\ Len(trace') = Len(trace) + 1 /\ LastFetchFailed(trace', web')) =>
              /\ pc' = "crawl"
              /\ warn' = warn
              /\ all_urls' = all_urls
              /\ to_visit' = PopRest(to_visit)
              /\ visited' = visited \cup {PopItem(to_visit)}
        /\ (pc' = "returned" /\ warn' = "none") =>
              /\ to_visit' = <<>>
              /\ \A s \in DOMAIN web' : s \in visited'
              /\ \A s \in DOMAIN web' : web'[s].ok =>
                     Range(LocsOf(web'[s])) \subseteq
                         (IF is_sitemap_index(web'[s]) THEN visited' ELSE Range(deduped'))
      ]_vars

\* a crawl whose first child failed, and which then fetched a leaf document
\* whose URLs are in the result
C6_Witness ==
    /\ pc = "returned"
    /\ warn = "none"
    /\ Len(FetchedUrls(trace)) = 3
    /\ ~web[FetchedUrls(trace)[2]].ok
    /\ web[FetchedUrls(trace)[3]].ok
    /\ deduped # <<>>

----------------------------------------------------------------------------
(* url_passes_filters *)

\* (mutant) a keyword is compared as written: `k in u` instead of `k.lower() in u`
AnyAsWrittenIn(ks, u) == \E i \in 1..Len(ks) : Contains(u, ks[i])

\* any(k.lower() in u for k in ks)
AnyLoweredIn(ks, u) == \E i \in 1..Len(ks) : Contains(u, Lower(ks[i]))

url_passes_filters(url, cfg) ==
    LET u == Lower(url)
    IN  IF cfg.product_marker # <<>> /\ ~Contains(u, Lower(cfg.product_marker))
        THEN FALSE
        ELSE IF cfg.include_keywords # <<>> /\ ~AnyLoweredIn(cfg.include_keywords, u)
        THEN FALSE
        ELSE IF cfg.must_contain_any # <<>> /\ ~AnyLoweredIn(cfg.must_contain_any, u)
        THEN FALSE
        ELSE IF cfg.exclude_keywords # <<>> /\ AnyLoweredIn(cfg.exclude_keywords, u)
        THEN FALSE
        ELSE TRUE

\* a direct call url_passes_filters(probe, fc)
FilterCall ==
    /\ pc = "filter_call"
    /\ verdict' = url_passes_filters(probe, fc)
    /\ pc' = "filter_returned"
    /\ UNCHANGED <<probe, crawlVars, trace, configVars, mainVars, extractVars>>

MaxProbeLen == 3     \* length of the URLs tried
MaxKeywords == 1     \* entries per keyword list

ProbeChars == {"A", "b"}
ProbeUrls == SeqsUpTo(ProbeChars, MaxProbeLen)
Keywords == {<<"a">>, <<"B">>, <<"a", "b">>, <<"B", "b">>}
KeywordLists == SeqsUpTo(Keywords, MaxKeywords)
FilterConfigs == [product_marker : Keywords \cup {<<>>}, include_keywords : KeywordLists,
                  exclude_keywords : KeywordLists, must_contain_any : KeywordLists]

InitFilter ==
    /\ pc = "filter_call"
    /\ probe \in ProbeUrls
    /\ fc \in FilterConfigs
    /\ verdict = FALSE
    /\ ExtractIdle
    /\ web = <<>>
    /\ sitemap_url = SmRoot
    /\ max_sitemaps = DefaultMaxSitemaps
    /\ max_urls = DefaultMaxUrls
    /\ polite_delay_s = 0
    /\ to_visit = <<>>
    /\ visited = {}
    /\ all_urls = <<>>
    /\ warn = "none"
    /\ deduped = <<>>
    /\ trace = <<>>
    /\ currency_override = <<>>
    /\ in_stock_only = FALSE
    /\ polite_delay = 0
    /\ max_products = 0
    /\ MainIdle

NextFilter == FilterCall

SpecFilter == InitFilter /\ [][NextFilter]_vars

\* case-insensitive substring test, character by character
ContainsIgnoringCase(s, k) ==
    \E i \in 0..(Len(s) - Len(k)) :
        \A j \in 1..Len(k) : LowerChar(s[i + j]) = LowerChar(k[j])

ContainsSome(s, ks) == \E i \in 1..Len(ks) : ContainsIgnoringCase(s, ks[i])

----------------------------------------------------------------------------
(* Field extraction from a parsed page.  A page (soup) is what the parser
   exposes to the extractors: for each element they look up, whether it exists,
   its content attribute ("" when absent or empty) and its text; and the
   visible text of the whole page. *)

OUT_OF_STOCK_PHRASES == <<
    <<"o","u","t"," ","o","f"," ","s","t","o","c","k">>,
    <<"s","o","l","d"," ","o","u","t">>,
    <<"n","o","t"," ","i","n"," ","s","t","o","c","k">>,
    <<"c","u","r","r","e","n","t","l","y"," ","u","n","a","v","a","i","l","a","b","l","e">>,
    <<"n","i","e","t"," ","o","p"," ","v","o","o","r","r","a","a","d">>,
    <<"n","i","e","t"," ","m","e","e","r"," ","o","p"," ","v","o","o","r","r","a","a","d">>,
    <<"u","i","t","v","e","r","k","o","c","h","t">>,
    <<"n","i","e","t"," ","l","e","v","e","r","b","a","a","r">>,
    <<"t","e","m","p","o","r","a","r","i","l","y"," ","u","n","a","v","a","i","l","a","b","l","e">> >>

IN_STOCK_PHRASES == <<
    <<"i","n"," ","s","t","o","c","k">>,
    <<"o","p"," ","v","o","o","r","r","a","a","d">>,
    <<"a","v","a","i","l","a","b","l","e">>,
    <<"a","d","d"," ","t","o"," ","c","a","r","t">>,
    <<"a","d","d"," ","t","o"," ","b","a","s","k","e","t">> >>

\* re.sub(r"\s+", " ", (s or "").strip())
RECURSIVE CollapseSpaces(_)
CollapseSpaces(s) ==
    IF s = <<>> THEN <<>>
    ELSE IF Head(s) \in Whitespace
         THEN IF Len(s) > 1 /\ s[2] \in Whitespace
              THEN CollapseSpaces(Tail(s))
              ELSE <<" ">> \o CollapseSpaces(Tail(s))
         ELSE <<Head(s)>> \o CollapseSpaces(Tail(s))

clean_text(s) == CollapseSpaces(Strip(s))

extract_title(soup) ==
    IF soup.h1.present THEN clean_text(soup.h1.text)
    ELSE IF soup.title.present THEN clean_text(soup.title.text)
    ELSE IF soup.og_title.present /\ soup.og_title.content # <<>>
         THEN clean_text(soup.og_title.content)
    ELSE <<>>

Digits == <<"0","1","2","3","4","5","6","7","8","9">>
IsDigit(c) == \E d \in 1..10 : Digits[d] = c
DigitValue(c) == (CHOOSE d \in 1..10 : Digits[d] = c) - 1

RECURSIVE DigitsValue(_)
DigitsValue(s) ==
    IF s = <<>> THEN 0 ELSE 10 * DigitsValue(SubSeq(s, 1, Len(s) - 1)) + DigitValue(s[Len(s)])

\* content.replace(",", ".")
CommaToDot(s) == [i \in 1..Len(s) |-> IF s[i] = "," THEN "." ELSE s[i]]

\* end of the run of digits that starts at position i
RECURSIVE DigitRunEnd(_, _)
DigitRunEnd(s, i) ==
    IF i < Len(s) /\ IsDigit(s[i + 1]) THEN DigitRunEnd(s, i + 1) ELSE i

\* the match of [0-9]+(?:[.,][0-9]{2})? that starts at position i
NumberMatchAt(s, i) ==
    LET e == DigitRunEnd(s, i)
    IN  IF e + 3 <= Len(s) /\ s[e + 1] \in {".", ","}
           /\ IsDigit(s[e + 2]) /\ IsDigit(s[e + 3])
        THEN SubSeq(s, i, e + 3)
        ELSE SubSeq(s, i, e)

\* digits without their trailing zeros
RECURSIVE DropTrailingZeros(_)
DropTrailingZeros(s) ==
    IF s # <<>> /\ s[Len(s)] = "0" THEN DropTrailingZeros(SubSeq(s, 1, Len(s) - 1)) ELSE s

\* float(x) for x of the form  [+-] digits [. digits]  with whitespace allowed
\* around it (exponents, "inf", "nan" and "_" are not modelled).  <<>> stands
\* for ValueError; <<[m |-> 1999, e |-> 2]>> for the value 1999 / 10^2 = 19.99.
FloatOf(x) ==
    LET s == Strip(x)
        signed == s # <<>> /\ s[1] \in {"+", "-"}
        body == IF signed THEN Tail(s) ELSE s
        dots == {i \in 1..Len(body) : body[i] = "."}
        dot == IF dots = {} THEN Len(body) + 1 ELSE CHOOSE i \in dots : \A j \in dots : i <= j
        ip == SubSeq(body, 1, dot - 1)
        fp == DropTrailingZeros(SubSeq(body, dot + 1, Len(body)))
        wellFormed == /\ \A i \in 1..Len(ip) : IsDigit(ip[i])
                      /\ \A i \in (dot + 1)..Len(body) : IsDigit(body[i])
                      /\ Len(body) > (IF dots = {} THEN 0 ELSE 1)
        magnitude == DigitsValue(ip \o fp)
    IN  IF ~wellFormed THEN <<>>
        ELSE <<[m |-> IF signed /\ s[1] = "-" THEN 0 - magnitude ELSE magnitude,
                e |-> Len(fp)]>>

\* 1) schema.org price: re.search over content-or-text of [itemprop="price"]
StructuredPrice(soup) ==
    LET content == IF soup.itemprop_price.content # <<>>
                   THEN soup.itemprop_price.content ELSE soup.itemprop_price.text
        starts == {i \in 1..Len(content) : IsDigit(content[i])}
    IN  IF ~soup.itemprop_price.present \/ starts = {} THEN <<>>
        ELSE FloatOf(CommaToDot(NumberMatchAt(content,
                 CHOOSE i \in starts : \A j \in starts : i <= j)))

\* 2) meta property product:price:amount
OpenGraphPrice(soup) ==
    IF soup.og_price.present /\ soup.og_price.content # <<>>
    THEN FloatOf(CommaToDot(soup.og_price.content))
    ELSE <<>>

CurrencySymbols == {"€", "$", "£"}

\* position of the first digit after the symbol at i and any whitespace, or 0
RECURSIVE AmountStartAfter(_, _)
AmountStartAfter(s, i) ==
    IF i >= Len(s) THEN 0
    ELSE IF IsDigit(s[i + 1]) THEN i + 1
    ELSE IF s[i + 1] \in Whitespace THEN AmountStartAfter(s, i + 1)
    ELSE 0

\* 3) re.search(r"(€|\$|£)\s*([0-9]+(?:[.,][0-9]{2})?)", text)
VisiblePrice(soup) ==
    LET t == soup.text
        hits == {i \in 1..Len(t) : t[i] \in CurrencySymbols /\ AmountStartAfter(t, i) # 0}
    IN  IF hits = {} THEN <<>>
        ELSE FloatOf(CommaToDot(NumberMatchAt(t,
                 AmountStartAfter(t, CHOOSE i \in hits : \A j \in hits : i <= j))))

\* (mutant) the OpenGraph amount is tried before the structured price
extract_price_OpenGraphFirst(soup) ==
    IF OpenGraphPrice(soup) # <<>> THEN OpenGraphPrice(soup)
    ELSE IF StructuredPrice(soup) # <<>> THEN StructuredPrice(soup)
    ELSE VisiblePrice(soup)

\* <<>> is None
extract_price(soup) ==
    IF StructuredPrice(soup) # <<>> THEN StructuredPrice(soup)
    ELSE IF OpenGraphPrice(soup) # <<>> THEN OpenGraphPrice(soup)
    ELSE VisiblePrice(soup)

EUR == <<"E", "U", "R">>
USD == <<"U", "S", "D">>
GBP == <<"G", "B", "P">>

extract_currency(soup) ==
    IF soup.itemprop_currency.present
    THEN clean_text(IF soup.itemprop_currency.content # <<>>
                    THEN soup.itemprop_currency.content ELSE soup.itemprop_currency.text)
    ELSE IF soup.og_currency.present /\ soup.og_currency.content # <<>>
    THEN clean_text(soup.og_currency.content)
    ELSE IF Contains(soup.text, <<"€">>) THEN EUR
    ELSE IF Contains(soup.text, <<"$">>) THEN USD
    ELSE IF Contains(soup.text, <<"£">>) THEN GBP
    ELSE <<>>

AnyPhraseIn(phrases, t) == \E i \in 1..Len(phrases) : Contains(t, phrases[i])

OutOfStock == "out_of_stock"
InStock == "in_stock"

\* (mutant) the in-stock phrases are tried first
extract_stock_status_InStockFirst(soup) ==
    LET t == Lower(soup.text)
    IN  IF AnyPhraseIn(IN_STOCK_PHRASES, t) THEN InStock
        ELSE IF AnyPhraseIn(OUT_OF_STOCK_PHRASES, t) THEN OutOfStock
        ELSE ""

extract_stock_status(soup) ==
    LET t == Lower(soup.text)
    IN  IF AnyPhraseIn(OUT_OF_STOCK_PHRASES, t) THEN OutOfStock
        ELSE IF AnyPhraseIn(IN_STOCK_PHRASES, t) THEN InStock
        ELSE ""

----------------------------------------------------------------------------
(* guess_category_from_url *)

Letters == Range(Uppers) \cup Range(Lowers)
SchemeChars == Letters \cup Range(Digits) \cup {"+", "-", "."}

\* position of the first character of s at or after i that is in stops,
\* or Len(s) + 1
FirstOf(s, i, stops) ==
    LET at == {j \in i..Len(s) : s[j] \in stops}
    IN  IF at = {} THEN Len(s) + 1 ELSE CHOOSE j \in at : \A k \in at : j <= k

\* urlparse(url).path: the URL without scheme, //netloc, ?query and #fragment
UrlPath(url) ==
    LET colon == FirstOf(url, 1, {":"})
        hasScheme == /\ colon > 1 /\ colon <= Len(url)
                     /\ url[1] \in Letters
                     /\ \A j \in 1..(colon - 1) : url[j] \in SchemeChars
        rest == IF hasScheme THEN SubSeq(url, colon + 1, Len(url)) ELSE url
        hasNetloc == Len(rest) >= 2 /\ rest[1] = "/" /\ rest[2] = "/"
        afterNetloc == IF hasNetloc
                       THEN SubSeq(rest, FirstOf(rest, 3, {"/", "?", "#"}), Len(rest))
                       ELSE rest
    IN  SubSeq(afterNetloc, 1, FirstOf(afterNetloc, 1, {"?", "#"}) - 1)

\* [p for p in path.split("/") if p]
RECURSIVE Segments(_)
Segments(path) ==
    IF path = <<>> THEN <<>>
    ELSE LET cut == FirstOf(path, 1, {"/"})
             first == SubSeq(path, 1, cut - 1)
             more == Segments(SubSeq(path, cut + 1, Len(path)))
         IN  IF first = <<>> THEN more ELSE <<first>> \o more

\* "/".join(parts)
RECURSIVE JoinSlash(_)
JoinSlash(parts) ==
    IF parts = <<>> THEN <<>>
    ELSE IF Len(parts) = 1 THEN parts[1]
    ELSE parts[1] \o <<"/">> \o JoinSlash(Tail(parts))

\* (mutant) the subcategory keeps the last segment
guess_category_from_url_KeepsLast(url) ==
    LET parts == Segments(UrlPath(url))
        cat == IF Len(parts) > 0 THEN parts[1] ELSE <<>>
        sub == IF Len(parts) > 2 THEN JoinSlash(SubSeq(parts, 2, Len(parts)))
               ELSE IF Len(parts) > 1 THEN parts[2] ELSE <<>>
    IN  <<cat, sub>>

\* returns (cat, sub)
guess_category_from_url(url) ==
    LET parts == Segments(UrlPath(url))
        cat == IF Len(parts) > 0 THEN parts[1] ELSE <<>>
        sub == IF Len(parts) > 2 THEN JoinSlash(SubSeq(parts, 2, Len(parts) - 1))
               ELSE IF Len(parts) > 1 THEN parts[2] ELSE <<>>
    IN  <<cat, sub>>

----------------------------------------------------------------------------
(* main(): crawl, filter, limit, then one page after the other *)

PageFetchCall(u) == [op |-> "fetch", by |-> "main", url |-> u, secs |-> 0]
PageSleepCall(d) == [op |-> "sleep", by |-> "main", url |-> <<>>, secs |-> d]

\* the URLs main() passed to fetch_text so far, in order
PagesFetched(tr) ==
    LET f == SelectSeq(tr, LAMBDA e : e.op = "fetch" /\ e.by = "main")
    IN  [i \in 1..Len(f) |-> f[i].url]

\* filtered = [u for u in all_urls if url_passes_filters(u, fc)]
Candidates(urls, cfg) == SelectSeq(urls, LAMBDA u : url_passes_filters(u, cfg))

\* (mutant) the slice keeps the tail of the list
LimitCandidatesKeepsLast(cands, limit) ==
    IF limit # 0 /\ Len(cands) > limit
    THEN SubSeq(cands, Len(cands) - limit + 1, Len(cands))
    ELSE cands

\* if max_products and len(filtered) > max_products: filtered = filtered[:max_products]
LimitCandidates(cands, limit) ==
    IF limit # 0 /\ Len(cands) > limit THEN SubSeq(cands, 1, limit) ELSE cands

\* meta.get("currency_override") or extract_currency(soup)
CurrencyFor(override, soup) == IF override # <<>> THEN override ELSE extract_currency(soup)

\* the row appended after a successful fetch and parse
ProductRow(url, soup, override) ==
    [category |-> guess_category_from_url(url)[1],
     subcategory |-> guess_category_from_url(url)[2],
     title |-> extract_title(soup),
     price |-> extract_price(soup),
     currency |-> CurrencyFor(override, soup),
     stock |-> extract_stock_status(soup),
     url |-> url]

\* (mutant) the error row leaves the currency empty
ErrorRowWithoutCurrency(url, message, override) ==
    [category |-> <<>>, subcategory |-> <<>>, title |-> <<>>, price |-> <<>>,
     currency |-> <<>>, stock |-> "", url |-> url, error |-> message]

\* the row appended by the except branch; price <<>> is None
ErrorRow(url, message, override) ==
    [category |-> <<>>, subcategory |-> <<>>, title |-> <<>>, price |-> <<>>,
     currency |-> override, stock |-> "", url |-> url, error |-> message]

\* if in_stock_only and stock == "out_of_stock"
GateSkips(only, stock) == only /\ stock = OutOfStock

NoElement == [present |-> FALSE, content |-> <<>>, text |-> <<>>]
Element(content, text) == [present |-> TRUE, content |-> content, text |-> text]

PageInStock ==
    [h1 |-> Element(<<>>, <<"D","r","i","l","l"," ","X">>),
     title |-> Element(<<>>, <<"S","h","o","p"," ","-"," ","D","r","i","l","l"," ","X"," ","-"," ","B","u","y"," ","N","o","w">>),
     og_title |-> NoElement,
     itemprop_price |-> Element(<<"1","9",".","9","9">>, <<>>),
     og_price |-> Element(<<"2","9",".","9","9">>, <<>>),
     itemprop_currency |-> NoElement,
     og_currency |-> Element(<<"E","U","R">>, <<>>),
     text |-> <<"D","r","i","l","l"," ","X"," ","€"," ","1","9",",","9","9"," ","A","d","d"," ","t","o"," ","c","a","r","t">>]

PageUnavailable ==
    [h1 |-> NoElement,
     title |-> Element(<<>>, <<" "," ","S","a","w"," "," ","Y"," ">>),
     og_title |-> Element(<<"S","a","w"," ","Y">>, <<>>),
     itemprop_price |-> NoElement,
     og_price |-> NoElement,
     itemprop_currency |-> NoElement,
     og_currency |-> NoElement,
     text |-> <<"S","a","w"," ","Y"," ","A","d","d"," ","t","o"," ","c","a","r","t"," ","C","u","r","r","e","n","t","l","y"," ","u","n","a","v","a","i","l","a","b","l","e">>]

PageBare ==
    [h1 |-> NoElement, title |-> NoElement, og_title |-> NoElement,
     itemprop_price |-> NoElement, og_price |-> NoElement,
     itemprop_currency |-> NoElement, og_currency |-> NoElement,
     text |-> <<>>]

ExamplePages == {PageInStock, PageUnavailable, PageBare}

\* what fetching and parsing one page can produce: an exception raised by
\* fetch_text, an exception raised while parsing or extracting, or a soup
PageOutcomes ==
    {[status |-> "fetch_error", soup |-> PageBare, message |-> "fetch failed"],
     [status |-> "parse_error", soup |-> PageBare, message |-> "parse failed"]}
    \cup [status : {"ok"}, soup : ExamplePages, message : {""}]

\* all_urls = crawl_sitemap_tree(...); filtered = [...]; nothing matched: return
MainNoCandidates ==
    /\ pc = "returned"
    /\ Candidates(deduped, fc) = <<>>
    /\ filtered' = <<>>
    /\ pc' = "no_match"
    /\ UNCHANGED <<crawlVars, trace, configVars, done, rows, errors, outcomes, filterVars, extractVars>>

\* all_urls = crawl_sitemap_tree(...); filtered = [...]; the limit; rows = []; errors = 0
MainSelectCandidates ==
    /\ pc = "returned"
    /\ Candidates(deduped, fc) # <<>>
    /\ filtered' = LimitCandidates(Candidates(deduped, fc), max_products)
    /\ rows' = <<>>
    /\ errors' = 0
    /\ pc' = "pages"
    /\ UNCHANGED <<crawlVars, trace, configVars, done, outcomes, filterVars, extractVars>>

\* the common part of one iteration of the loop over filtered
PageStep(url, o) ==
    /\ pc = "pages"
    /\ done < Len(filtered)
    /\ url = filtered[done + 1]
    /\ o \in PageOutcomes
    /\ outcomes' = Append(outcomes, o)
    /\ done' = done + 1
    /\ UNCHANGED <<pc, crawlVars, configVars, filtered, filterVars, extractVars>>

\* (mutant) the except branch appends the row without counting the error
MainPageFailedUncounted ==
    \E o \in PageOutcomes :
        /\ PageStep(filtered[done + 1], o)
        /\ o.status # "ok"
        /\ rows' = Append(rows, ErrorRow(filtered[done + 1], o.message, currency_override))
        /\ trace' = trace \o <<PageFetchCall(filtered[done + 1]), PageSleepCall(polite_delay)>>
        /\ UNCHANGED errors

\* the except branch
MainPageFailed ==
    \E o \in PageOutcomes :
        /\ PageStep(filtered[done + 1], o)
        /\ o.status # "ok"
        /\ errors' = errors + 1
        /\ rows' = Append(rows, ErrorRow(filtered[done + 1], o.message, currency_override))
        /\ trace' = trace \o <<PageFetchCall(filtered[done + 1]), PageSleepCall(polite_delay)>>

\* (mutant) the gate goes to the next URL without sleeping
MainPageSkippedNoSleep ==
    \E o \in PageOutcomes :
        /\ PageStep(filtered[done + 1], o)
        /\ o.status = "ok"
        /\ GateSkips(in_stock_only, extract_stock_status(o.soup))
        /\ trace' = trace \o <<PageFetchCall(filtered[done + 1])>>
        /\ UNCHANGED <<rows, errors>>

\* the in-stock-only gate: sleep and continue
MainPageSkipped ==
    \E o \in PageOutcomes :
        /\ PageStep(filtered[done + 1], o)
        /\ o.status = "ok"
        /\ GateSkips(in_stock_only, extract_stock_status(o.soup))
        /\ trace' = trace \o <<PageFetchCall(filtered[done + 1]), PageSleepCall(polite_delay)>>
        /\ UNCHANGED <<rows, errors>>

MainPageRecorded ==
    \E o \in PageOutcomes :
        /\ PageStep(filtered[done + 1], o)
        /\ o.status = "ok"
        /\ ~GateSkips(in_stock_only, extract_stock_status(o.soup))
        /\ rows' = Append(rows, ProductRow(filtered[done + 1], o.soup, currency_override))
        /\ trace' = trace \o <<PageFetchCall(filtered[done + 1]), PageSleepCall(polite_delay)>>
        /\ UNCHANGED errors

\* the loop is over: the rows are written to the Excel file
MainExport ==
    /\ pc = "pages"
    /\ done = Len(filtered)
    /\ pc' = "done"
    /\ UNCHANGED <<crawlVars, trace, configVars, mainVars, filterVars, extractVars>>

MainStep ==
    \/ MainNoCandidates
    \/ MainSelectCandidates
    \/ MainPageFailed
    \/ MainPageSkipped
    \/ MainPageRecorded
    \/ MainExport

----------------------------------------------------------------------------
(* The whole program, on a few sites *)

MaxProducts == 2     \* largest product limit tried

Leaf(locs) == [ok |-> TRUE, head |-> HeadUrlset, bodies |-> locs]
Index(locs) == [ok |-> TRUE, head |-> HeadIndex, bodies |-> locs]

\* an index listing leaf a, then leaf b
SiteTwoLeaves ==
    (SmRoot :> Index(<<SmA, SmB>>)) @@ (SmA :> Leaf(<<U1, U2>>)) @@ (SmB :> Leaf(<<U2, U3>>))

\* an index whose first child lists a URL twice and whose second is empty
SiteEmptyChild ==
    (SmRoot :> Index(<<SmA, SmB>>)) @@ (SmA :> Leaf(<<U3, U1, U3>>)) @@ (SmB :> Leaf(<<>>))

\* an index whose first child cannot be fetched and whose second lists itself
\* and the first child again; no leaf document at all
SiteBroken ==
    (SmRoot :> Index(<<SmA, SmBPadded>>)) @@ (SmA :> FetchError)
        @@ (SmB :> Index(<<SmB, SmA>>))

ExampleSites == {SiteTwoLeaves, SiteEmptyChild, SiteBroken}

MarkerP == <<"/","p","/">>
Blog == <<"b","l","o","g">>

MainFilters ==
    {NoFilters,
     [NoFilters EXCEPT !.product_marker = MarkerP],
     [NoFilters EXCEPT !.product_marker = MarkerP, !.exclude_keywords = <<Blog>>],
     [NoFilters EXCEPT !.include_keywords = <<Blog>>, !.must_contain_any = <<MarkerP, Blog>>]}

\* polite delay in tenths of a second; 2 is the prompt's default 0.2
\* (time.sleep accepts no negative delay, so none is tried)
PageDelays == {0, 2}

Init ==
    /\ web \in ExampleSites
    /\ sitemap_url = SmRoot
    /\ max_sitemaps = DefaultMaxSitemaps
    /\ max_urls = DefaultMaxUrls
    /\ polite_delay_s = 0
    /\ CrawlEntry
    /\ fc \in MainFilters
    /\ currency_override \in {<<>>, USD}
    /\ in_stock_only \in BOOLEAN
    /\ polite_delay \in PageDelays
    /\ max_products \in 0..MaxProducts
    /\ MainIdle
    /\ FilterIdle
    /\ ExtractIdle

\* main() calls crawl_sitemap_tree with its default bounds (500 documents,
\* 500000 URLs), which sites of three documents never reach: the two bound
\* stops are exercised under SpecCrawl.
Next ==
    \/ CrawlSkipVisited
    \/ CrawlFetchFailed
    \/ CrawlNoLocs
    \/ CrawlIndex
    \/ CrawlLeaf
    \/ CrawlReturn
    \/ MainStep

Spec == Init /\ [][Next]_vars

----------------------------------------------------------------------------
(* Properties of main() (checked under Spec) *)

\* the root is an index listing leaf a and then leaf b; a yields [u1, u2] and
\* b yields [u2, u3]
IndexOfTwoLeaves(a, b, u1, u2, u3) ==
    /\ Cardinality({SmRoot, a, b}) = 3
    /\ Cardinality({u1, u2, u3}) = 3
    /\ web[SmRoot].ok /\ is_sitemap_index(web[SmRoot]) /\ LocsOf(web[SmRoot]) = <<a, b>>
    /\ web[a].ok /\ ~is_sitemap_index(web[a]) /\ LocsOf(web[a]) = <<u1, u2>>
    /\ web[b].ok /\ ~is_sitemap_index(web[b]) /\ LocsOf(web[b]) = <<u2, u3>>

\* the candidates are known, no page has been fetched, no filter, no limit
CandidatesReady ==
    /\ pc = "pages"
    /\ done = 0
    /\ PagesFetched(trace) = <<>>
    /\ fc = NoFilters
    /\ max_products = 0

\* C5 as stated: with a root index listing leaf A then leaf B, A yielding
\* [u1, u2] and B yielding [u2, u3], the candidates before any page fetch are
\* [u1, u2, u3].
C5_CandidatesInListingOrder ==
    \A a, b \in SitemapUrls : \A u1, u2, u3 \in PageUrls :
        (CandidatesReady /\ IndexOfTwoLeaves(a, b, u1, u2, u3)) =>
            filtered = <<u1, u2, u3>>

\* C5 amended: in that situation the candidates are [u2, u3, u1]: the leaf
\* listed last in the index is fetched first, so its URLs come first.
C5_CandidatesLastListedLeafFirst ==
    \A a, b \in SitemapUrls : \A u1, u2, u3 \in PageUrls :
        (CandidatesReady /\ IndexOfTwoLeaves(a, b, u1, u2, u3)) =>
            /\ filtered = <<u2, u3, u1>>
            /\ FetchedUrls(trace) = <<SmRoot, b, a>>

C5_Witness ==
    /\ CandidatesReady
    /\ IndexOfTwoLeaves(SmA, SmB, U1, U2, U3)
    /\ filtered = <<U2, U3, U1>>

\* the step just taken is a loop iteration whose fetch or parse failed
PageJustFailed ==
    /\ pc = "pages"
    /\ Len(outcomes') = Len(outcomes) + 1
    /\ outcomes'[Len(outcomes')].status # "ok"

\* the step appended exactly one row, for the current URL, with an error, and
\* with all of category, subcategory, title, price and stock empty
OneErrorRowAppended ==
    /\ Len(rows') = Len(rows) + 1
    /\ SubSeq(rows', 1, Len(rows)) = rows
    /\ LET r == rows'[Len(rows')]
       IN  /\ "error" \in DOMAIN r
           /\ r.url = filtered[done + 1]
           /\ r.category = <<>> /\ r.subcategory = <<>> /\ r.title = <<>>
           /\ r.price = <<>> /\ r.stock = ""

\* the loop goes on to the next URL, and ends only when all are done
BatchContinues ==
    /\ pc' = "pages"
    /\ done' = done + 1
    /\ filtered' = filtered

\* C7 as stated: a failed page gives exactly one row in which every field but
\* url and error is empty, whatever the currency override; the error count
\* grows by one and the batch goes on.
C7_ErrorRowAllEmpty ==
    [][ PageJustFailed =>
            /\ OneErrorRowAppended
            /\ rows'[Len(rows')].currency = <<>>
            /\ errors' = errors + 1
            /\ BatchContinues ]_vars

\* C7 amended: a failed page gives exactly one row in which category,
\* subcategory, title, price and stock are empty and currency is the currency
\* override (empty only when no override is set); the error count grows by one
\* and the batch goes on until every candidate is done.
C7_ErrorRowEmptyButCurrencyOverride ==
    [][ /\ PageJustFailed =>
            /\ OneErrorRowAppended
            /\ rows'[Len(rows')].currency = currency_override
            /\ errors' = errors + 1
            /\ BatchContinues
        /\ pc' = "done" => Len(outcomes') = Len(filtered')
      ]_vars

\* a finished batch whose first page failed with an override set, and whose
\* later pages were processed
C7_Witness ==
    /\ pc = "done"
    /\ currency_override # <<>>
    /\ Len(outcomes) = 3
    /\ outcomes[1].status = "fetch_error"
    /\ outcomes[2].status = "parse_error"
    /\ outcomes[3].status = "ok"
    /\ errors = 2
    /\ Len(rows) = 3

\* the step just taken fetched a page that parsed and is out of stock, with
\* in_stock_only set
OutOfStockJustSkipped ==
    /\ pc = "pages"
    /\ in_stock_only
    /\ Len(outcomes') = Len(outcomes) + 1
    /\ outcomes'[Len(outcomes')].status = "ok"
    /\ extract_stock_status(outcomes'[Len(outcomes')].soup) = OutOfStock

\* C8: with inStockOnly, a page fetched successfully and classified
\* out_of_stock adds no row and no error, and the configured delay is slept
\* right after its fetch, before the next page is fetched.
C8_OutOfStockSkippedButDelayed ==
    [][ OutOfStockJustSkipped =>
            /\ rows' = rows
            /\ errors' = errors
            /\ trace' = trace \o <<PageFetchCall(filtered[done + 1]), PageSleepCall(polite_delay)>>
            /\ pc' = "pages"
      ]_vars

\* two out-of-stock pages in a row were skipped with a positive delay, and a
\* later page was recorded
C8_Witness ==
    /\ in_stock_only
    /\ polite_delay > 0
    /\ Len(outcomes) = 3
    /\ extract_stock_status(outcomes[1].soup) = OutOfStock /\ outcomes[1].status = "ok"
    /\ extract_stock_status(outcomes[2].soup) = OutOfStock /\ outcomes[2].status = "ok"
    /\ Len(rows) = 1
    /\ errors = 0

\* the candidates main() is meant to fetch: all filtered URLs, or the first
\* max_products of them
ExpectedPages ==
    LET cands == SelectSeq(deduped, LAMBDA u : url_passes_filters(u, fc))
    IN  IF max_products > 0 /\ Len(cands) > max_products
        THEN [i \in 1..max_products |-> cands[i]]
        ELSE cands

\* C10: when maxProducts > 0 and there are more filtered candidates, exactly
\* the first maxProducts candidates are fetched, in the crawl's first-seen
\* order; otherwise every filtered candidate is fetched; no other page is.
C10_FetchesFirstMaxProducts ==
    /\ pc \in {"pages", "done", "no_match"} =>
           /\ done <= Len(ExpectedPages)
           /\ PagesFetched(trace) = SubSeq(ExpectedPages, 1, done)
    /\ pc = "done" => PagesFetched(trace) = ExpectedPages
    /\ pc \in {"crawl", "dedupe", "returned"} => PagesFetched(trace) = <<>>

\* three candidates, a limit of two: the first two were fetched
C10_Witness ==
    /\ pc = "done"
    /\ max_products = 2
    /\ Len(SelectSeq(deduped, LAMBDA u : url_passes_filters(u, fc))) = 3
    /\ PagesFetched(trace) = SubSeq(deduped, 1, 2)


----------------------------------------------------------------------------
(* Direct calls of the extractors: one parsed page, or one URL, per behaviour *)

\* a page on which only the given fields are set
PageWith(h1, title, og_title, itemprop_price, og_price, text) ==
    [h1 |-> h1, title |-> title, og_title |-> og_title,
     itemprop_price |-> itemprop_price, og_price |-> og_price,
     itemprop_currency |-> NoElement, og_currency |-> NoElement,
     text |-> text]

\* the element is missing, or has one of the given texts
TextElements(texts) == {NoElement} \cup {Element(<<>>, t) : t \in texts}
\* the meta element is missing, or has one of the given content attributes
MetaElements(contents) == {NoElement} \cup {Element(c, <<>>) : c \in contents}

HeadingTexts == {<<>>, <<" ">>, <<" ", "D", "r", "i", "l", "l", " ", " ", "X", " ">>}
TitleTexts == {<<>>, <<"\n">>, <<"S", "h", "o", "p">>}
OgTitleContents == {<<>>, <<" ">>, <<"O", "g", " ", "D", "r", "i", "l", "l">>}

TitlePages ==
    {PageWith(h, t, o, NoElement, NoElement, <<>>) :
        h \in TextElements(HeadingTexts),
        t \in TextElements(TitleTexts),
        o \in MetaElements(OgTitleContents)}

\* soup = BeautifulSoup(html, "lxml"); title = extract_title(soup); ... (lines 336-347)
ExtractCall ==
    /\ pc = "extract_call"
    /\ extracted' = [title |-> extract_title(page),
                     price |-> extract_price(page),
                     currency |-> extract_currency(page),
                     stock |-> extract_stock_status(page)]
    /\ pc' = "extract_returned"
    /\ UNCHANGED <<page, url_parts, crawlVars, trace, configVars, mainVars, filterVars>>

StructuredPriceElements ==
    {NoElement,
     Element(<<"1", "9", ".", "9", "9">>, <<>>),
     Element(<<>>, <<"€", " ", "1", ".", "2", "3", "4", ",", "5", "0", " ">>),
     Element(<<"n", "/", "a">>, <<>>),
     Element(<<>>, <<>>),
     Element(<<"-", "5">>, <<>>),
     Element(<<>>, <<"1", "2", ",", "5">>)}

OpenGraphPriceContents ==
    {<<"2", "9", ".", "9", "9">>,
     <<"-", "5">>,
     <<"1", "2", ",", "5", "0">>,
     <<"a", "b", "c">>,
     <<>>,
     <<"1", ".", "2", ".", "3">>,
     <<" ", "7", " ">>,
     <<"+", "3">>}

PriceTexts ==
    {<<>>,
     <<"€", " ", "1", "9", ",", "9", "9">>,
     <<"$", " ", "x">>,
     <<"n", "o", "w", " ", "£", "5", " ", "w", "a", "s", " ", "€", "7">>}

PricePages ==
    {PageWith(NoElement, NoElement, NoElement, s, o, t) :
        s \in StructuredPriceElements,
        o \in MetaElements(OpenGraphPriceContents),
        t \in PriceTexts}

MaxSnippets == 2     \* pieces of text a page is written from

Snippets ==
    {<<"A", "d", "d", " ", "t", "o", " ", "c", "a", "r", "t">>,
     <<"C", "u", "r", "r", "e", "n", "t", "l", "y", " ", "U", "n", "a", "v", "a", "i", "l", "a", "b", "l", "e">>,
     <<"I", "N", " ", "S", "T", "O", "C", "K">>,
     <<"N", "o", "t", " ", "i", "n", " ", "s", "t", "o", "c", "k">>,
     <<"S", "o", "l", "d">>,
     <<"o", "u", "t">>}

\* " ".join(pieces)
RECURSIVE JoinSpace(_)
JoinSpace(pieces) ==
    IF pieces = <<>> THEN <<>>
    ELSE IF Len(pieces) = 1 THEN pieces[1]
    ELSE pieces[1] \o <<" ">> \o JoinSpace(Tail(pieces))

StockPages ==
    {PageWith(NoElement, NoElement, NoElement, NoElement, NoElement, JoinSpace(p)) :
        p \in SeqsUpTo(Snippets, MaxSnippets)}

MaxSegments == 4     \* path segments of a URL

SegmentNames ==
    {<<"s", "h", "o", "p">>,
     <<"t", "o", "o", "l", "s">>,
     <<"d", "r", "i", "l", "l", "s">>,
     <<"i", "t", "e", "m", "-", "1">>}

UrlPrefixes == {<<>>, <<"h", "t", "t", "p", "s", ":", "/", "/", "x", ".", "i", "o">>}
UrlSeparators == {<<"/">>, <<"/", "/">>}
UrlTrailers == {<<>>, <<"/">>}
UrlQueries == {<<>>, <<"?", "q", "=", "a", "/", "b", "#", "c", "/", "d">>}

\* sep.join(parts)
RECURSIVE JoinWith(_, _)
JoinWith(parts, sep) ==
    IF parts = <<>> THEN <<>>
    ELSE IF Len(parts) = 1 THEN parts[1]
    ELSE parts[1] \o sep \o JoinWith(Tail(parts), sep)

\* the URL written from the path segments parts
UrlOf(prefix, parts, sep, trailer, query) ==
    prefix \o <<"/">> \o JoinWith(parts, sep) \o trailer \o query

\* a direct call of the four page extractors, or of guess_category_from_url
InitExtract ==
    /\ \/ /\ pc = "extract_call"
          /\ page \in TitlePages \cup PricePages \cup StockPages
          /\ url_parts = <<>>
          /\ probe = <<>>
       \/ /\ pc = "category_call"
          /\ page = <<>>
          /\ url_parts \in SeqsUpTo(SegmentNames, MaxSegments)
          /\ probe \in {UrlOf(p, url_parts, s, t, q) :
                          p \in UrlPrefixes, s \in UrlSeparators,
                          t \in UrlTrailers, q \in UrlQueries}
    /\ extracted = <<>>
    /\ verdict = FALSE
    /\ fc = NoFilters
    /\ web = <<>>
    /\ sitemap_url = SmRoot
    /\ max_sitemaps = DefaultMaxSitemaps
    /\ max_urls = DefaultMaxUrls
    /\ polite_delay_s = 0
    /\ to_visit = <<>>
    /\ visited = {}
    /\ all_urls = <<>>
    /\ warn = "none"
    /\ deduped = <<>>
    /\ trace = <<>>
    /\ currency_override = <<>>
    /\ in_stock_only = FALSE
    /\ polite_delay = 0
    /\ max_products = 0
    /\ MainIdle

\* category, subcategory = guess_category_from_url(url)
CategoryCall ==
    /\ pc = "category_call"
    /\ extracted' = guess_category_from_url(probe)
    /\ pc' = "category_returned"
    /\ UNCHANGED <<page, url_parts, crawlVars, trace, configVars, mainVars, filterVars>>

NextExtract == ExtractCall \/ CategoryCall

SpecExtract == InitExtract /\ [][NextExtract]_vars
----------------------------------------------------------------------------
(* Claims about the extractors *)

\* what each title strategy yields on its own, in cascade order: the cleaned
\* text of the first heading, of the document title, of the og:title content
TitleStrategyValues(soup) ==
    <<IF soup.h1.present THEN clean_text(soup.h1.text) ELSE <<>>,
      IF soup.title.present THEN clean_text(soup.title.text) ELSE <<>>,
      IF soup.og_title.present THEN clean_text(soup.og_title.content) ELSE <<>> >>

\* the first non-empty value of the list, or the empty value
FirstUsable(values) ==
    LET usable == {i \in 1..Len(values) : values[i] # <<>>}
    IN  IF usable = {} THEN <<>>
        ELSE values[CHOOSE i \in usable : \A j \in usable : i <= j]

\* C11: the title is the first usable (non-empty) value in the order first
\* heading, document title, og:title; an element that exists but has no
\* usable text does not stop the cascade, and the title is empty only when
\* all three strategies yield nothing.
C11_TitleCascadeFallsThrough ==
    pc = "extract_returned" =>
        extracted.title = FirstUsable(TitleStrategyValues(page))


\* some phrase of the list occurs in the text, letter case ignored
MentionsAny(phrases, text) ==
    \E i \in 1..Len(phrases) : ContainsIgnoringCase(text, phrases[i])

\* the stock classification with the given value for "neither phrase set"
StockClassifiedWith(neither) ==
    pc = "extract_returned" =>
        /\ extracted.stock \in {neither, InStock, OutOfStock}
        /\ MentionsAny(OUT_OF_STOCK_PHRASES, page.text) => extracted.stock = OutOfStock
        /\ (~MentionsAny(OUT_OF_STOCK_PHRASES, page.text)
            /\ MentionsAny(IN_STOCK_PHRASES, page.text)) => extracted.stock = InStock
        /\ (~MentionsAny(OUT_OF_STOCK_PHRASES, page.text)
            /\ ~MentionsAny(IN_STOCK_PHRASES, page.text)) => extracted.stock = neither

Price1999 == <<[m |-> 1999, e |-> 2]>>

\* C13: the price is the value of the first strategy that succeeds, in the
\* order structured price element, OpenGraph price amount, currency symbol
\* followed by a number in the visible text; a strategy with no value or with
\* a value that is not a number is passed over; structured "19.99" with
\* OpenGraph "29.99" gives 19.99; the price is absent only when all three fail.
C13_PriceIsFirstSuccessfulStrategy ==
    pc = "extract_returned" =>
        /\ extracted.price =
              FirstUsable(<<StructuredPrice(page), OpenGraphPrice(page), VisiblePrice(page)>>)
        /\ (extracted.price = <<>>) <=>
              (/\ StructuredPrice(page) = <<>>
               /\ OpenGraphPrice(page) = <<>>
               /\ VisiblePrice(page) = <<>>)
        /\ (/\ page.itemprop_price = Element(<<"1", "9", ".", "9", "9">>, <<>>)
            /\ page.og_price = Element(<<"2", "9", ".", "9", "9">>, <<>>)) => extracted.price = Price1999

\* a structured element without a number and an OpenGraph amount that is not
\* a number were passed over and the price came from the visible text
C13_Witness ==
    /\ pc = "extract_returned"
    /\ page.itemprop_price = Element(<<"n", "/", "a">>, <<>>)
    /\ page.og_price = Element(<<"1", ".", "2", ".", "3">>, <<>>)
    /\ page.text = <<"€", " ", "1", "9", ",", "9", "9">>
    /\ extracted.price = Price1999

\* C14: a returned price is never negative, whichever strategy produced it.
C14_PriceNonNegative ==
    (pc = "extract_returned" /\ extracted.price # <<>>) => extracted.price[1].m >= 0


\* C15: category and subcategory come from the non-empty segments of the URL
\* path alone: category is the first segment (empty if none); with more than
\* two segments subcategory is the segments after the first and before the
\* last joined by "/"; with exactly two it is the second segment; with fewer
\* it is empty.  /shop/tools/drills/item-1 gives shop and tools/drills,
\* /shop/item-1 gives shop and item-1, /item-1 gives item-1 and "".
C15_CategoryFromPathSegments ==
    pc = "category_returned" =>
        LET n == Len(url_parts)
        IN  /\ extracted[1] = IF n >= 1 THEN url_parts[1] ELSE <<>>
            /\ extracted[2] = IF n > 2 THEN JoinWith(SubSeq(url_parts, 2, n - 1), <<"/">>)
                              ELSE IF n = 2 THEN url_parts[2]
                              ELSE <<>>
            /\ probe = <<"/", "s", "h", "o", "p", "/", "t", "o", "o", "l", "s", "/", "d", "r", "i", "l", "l", "s", "/", "i", "t", "e", "m", "-", "1">> => extracted = <<<<"s", "h", "o", "p">>, <<"t", "o", "o", "l", "s", "/", "d", "r", "i", "l", "l", "s">>>>
            /\ probe = <<"/", "s", "h", "o", "p", "/", "i", "t", "e", "m", "-", "1">> => extracted = <<<<"s", "h", "o", "p">>, <<"i", "t", "e", "m", "-", "1">>>>
            /\ probe = <<"/", "i", "t", "e", "m", "-", "1">> => extracted = <<<<"i", "t", "e", "m", "-", "1">>, <<>> >>

\* the category of https://x.io/shop//tools//drills//item-1/?q=a/b#c/d was derived
C15_Witness ==
    /\ pc = "category_returned"
    /\ probe = <<"h", "t", "t", "p", "s", ":", "/", "/", "x", ".", "i", "o", "/", "s", "h", "o", "p", "/", "/", "t", "o", "o", "l", "s", "/", "/", "d", "r", "i", "l", "l", "s", "/", "/", "i", "t", "e", "m", "-", "1", "/", "?", "q", "=", "a", "/", "b", "#", "c", "/", "d">>
    /\ extracted = <<<<"s", "h", "o", "p">>, <<"t", "o", "o", "l", "s", "/", "d", "r", "i", "l", "l", "s">>>>


----------------------------------------------------------------------------
(* Claims about the order and the extent of the crawl *)

\* the children of the index document sm that are unvisited once sm is, in
\* listing order
UnvisitedChildren(sm, site, seen) ==
    SelectSeq(LocsOf(site[sm]), LAMBDA c : c \notin seen \cup {sm})

\* this step fetched the index document on top of the work list and went on
IndexProcessed ==
    /\ pc = "crawl" /\ pc' = "crawl"
    /\ to_visit # <<>>
    /\ to_visit[Len(to_visit)] \notin visited
    /\ web'[to_visit[Len(to_visit)]].ok
    /\ is_sitemap_index(web'[to_visit[Len(to_visit)]])

\* C16: the work list is last-in-first-out.  Every iteration dequeues the
\* entry pushed most recently (the last one), the older entries keep their
\* places below it, and after an index document is processed its unvisited
\* children lie on top in listing order, the last-listed one to be visited
\* next, before every entry that was on the work list earlier.
C16_WorkListIsLastInFirstOut ==
    [][(pc = "crawl" /\ to_visit # <<>>) =>
          LET top == to_visit[Len(to_visit)]
          IN  /\ visited' = visited \cup {top}
              /\ FetchedUrls(trace') \in
                     {FetchedUrls(trace), Append(FetchedUrls(trace), top)}
              /\ Len(to_visit') >= Len(to_visit) - 1
              /\ SubSeq(to_visit', 1, Len(to_visit) - 1) = SubSeq(to_visit, 1, Len(to_visit) - 1)
              /\ IndexProcessed =>
                     to_visit' = SubSeq(to_visit, 1, Len(to_visit) - 1)
                                 \o UnvisitedChildren(top, web', visited)
              /\ (IndexProcessed /\ UnvisitedChildren(top, web', visited) # <<>>) =>
                     LET kids == UnvisitedChildren(top, web', visited)
                     IN  to_visit'[Len(to_visit')] = kids[Len(kids)]
      ]_vars

\* the root index listed A and then B; B was fetched right after the root
\* while A, pushed earlier, still waits on the work list
C16_Witness ==
    /\ pc = "crawl"
    /\ FetchedUrls(trace) = <<SmRoot, SmB>>
    /\ LocsOf(web[SmRoot]) = <<SmA, SmB>>
    /\ to_visit # <<>>
    /\ to_visit[1] = SmA


\* the documents reachable from the frontier through successfully fetched
\* index documents of the site
RECURSIVE ReachableFrom(_, _, _)
ReachableFrom(site, frontier, seen) ==
    IF frontier \subseteq seen THEN seen
    ELSE LET d == CHOOSE x \in frontier \ seen : TRUE
             listed == IF d \in DOMAIN site /\ site[d].ok /\ is_sitemap_index(site[d])
                       THEN Range(LocsOf(site[d])) ELSE {}
         IN  ReachableFrom(site, (frontier \ {d}) \cup listed, seen \cup {d})

Reachable(site, root) == ReachableFrom(site, {root}, {})

\* the locations of the reachable leaf documents
ReachableLeafLocations(site, root) ==
    UNION {Range(LocsOf(site[d])) :
             d \in {x \in Reachable(site, root) \cap DOMAIN site :
                      site[x].ok /\ ~is_sitemap_index(site[x])}}

\* an entry no document lists: the answer of a document the site never served
NeverServed == <<"?">>

\* crawl_sitemap_tree with the work list served first-in-first-out
\* (to_visit.pop(0) instead of to_visit.pop()) on the documents of the site
RECURSIVE FifoCrawl(_, _, _, _, _, _)
FifoCrawl(site, queue, seen, acc, sitemapCap, urlCap) ==
    IF queue = <<>> THEN Dedupe(acc)
    ELSE LET sm == Head(queue)
             rest == Tail(queue)
             seen2 == seen \cup {sm}
         IN  IF sm \in seen THEN FifoCrawl(site, rest, seen, acc, sitemapCap, urlCap)
             ELSE IF Cardinality(seen2) > sitemapCap THEN Dedupe(acc)
             ELSE IF sm \notin DOMAIN site THEN Dedupe(Append(acc, NeverServed))
             ELSE IF ~site[sm].ok \/ LocsOf(site[sm]) = <<>>
                  THEN FifoCrawl(site, rest, seen2, acc, sitemapCap, urlCap)
             ELSE IF is_sitemap_index(site[sm])
                  THEN FifoCrawl(site,
                                 rest \o SelectSeq(LocsOf(site[sm]), LAMBDA c : c \notin seen2),
                                 seen2, acc, sitemapCap, urlCap)
             ELSE IF Len(acc \o LocsOf(site[sm])) >= urlCap
                  THEN Dedupe(SubSeq(acc \o LocsOf(site[sm]), 1, urlCap))
             ELSE FifoCrawl(site, rest, seen2, acc \o LocsOf(site[sm]), sitemapCap, urlCap)

FifoResult == FifoCrawl(web, <<sitemap_url>>, {}, <<>>, max_sitemaps, max_urls)

\* C17: when neither bound is hit, the returned set is the union of the
\* locations of every leaf document reachable from the root through
\* successfully fetched index documents, every reachable document was
\* fetched, and a first-in-first-out crawl of the same graph returns the
\* same set.
C17_ReturnedSetIsOrderIndependent ==
    (pc = "returned" /\ warn = "none") =>
        /\ Range(deduped) = ReachableLeafLocations(web, sitemap_url)
        /\ Range(FetchedUrls(trace)) = Reachable(web, sitemap_url)
        /\ Range(FifoResult) = Range(deduped)

\* a crawl without a bound stop returned at least two URLs in an order the
\* first-in-first-out crawl of the same graph does not return them in
C17_Witness ==
    /\ pc = "returned"
    /\ warn = "none"
    /\ Len(deduped) >= 2
    /\ FifoResult # deduped

\* C18: with a positive delay, every fetch of a sitemap document is followed
\* by a delay of polite_delay_s before the next document is fetched, whatever
\* the document turned out to be.
C18_DelayAfterEveryDocument ==
    polite_delay_s > 0 =>
        \A i \in 1..(Len(trace) - 1) :
            trace[i].op = "fetch" =>
                trace[i + 1] = SleepCall(polite_delay_s)

----------------------------------------------------------------------------
(* Termination of the crawl *)

\* the crawl under the assumption that the interpreter keeps executing it:
\* a step that can be taken is eventually taken
SpecCrawlFair == InitCrawl /\ [][NextCrawl]_vars /\ WF_vars(NextCrawl)

\* how far the function is from its return statement
CrawlRank == IF pc = "crawl" THEN 2 ELSE IF pc = "dedupe" THEN 1 ELSE 0

\* the sitemap URLs of the graph not dequeued so far
Unvisited == Cardinality((SitemapUrls \cup {sitemap_url}) \ visited)

\* C19: crawl_sitemap_tree terminates on every finite graph, cycles and
\* fetch failures included, under every value of the two bounds.  Every step
\* lowers the triple (position, unvisited sitemap URLs, length of the work
\* list) in lexicographic order, and the function eventually returns.
C19_CrawlTerminates ==
    /\ [][\/ CrawlRank' < CrawlRank
          \/ CrawlRank' = CrawlRank /\ Unvisited' < Unvisited
          \/ CrawlRank' = CrawlRank /\ Unvisited' = Unvisited
                /\ Len(to_visit') < Len(to_visit)]_vars
    /\ <>(pc = "returned")

\* the crawl returned from a graph in which two index documents list each other
C19_Witness ==
    /\ pc = "returned"
    /\ {SmA, SmB} \subseteq DOMAIN web
    /\ web[SmA].ok /\ is_sitemap_index(web[SmA]) /\ SmB \in Range(LocsOf(web[SmA]))
    /\ web[SmB].ok /\ is_sitemap_index(web[SmB]) /\ SmA \in Range(LocsOf(web[SmB]))


----------------------------------------------------------------------------
(* The product phase as a whole *)

\* the finished candidates (positions 1..done) the in-stock-only gate skipped
GateSkipped ==
    {i \in 1..done : /\ outcomes[i].status = "ok"
                     /\ in_stock_only
                     /\ extract_stock_status(outcomes[i].soup) = OutOfStock}

\* the url fields of the records, in record order
RowUrls == [i \in 1..Len(rows) |-> rows[i].url]

\* the finished candidates that were not skipped, in candidate order
RECURSIVE KeptCandidates(_)
KeptCandidates(n) ==
    IF n = 0 THEN <<>>
    ELSE IF n \in GateSkipped THEN KeptCandidates(n - 1)
    ELSE Append(KeptCandidates(n - 1), filtered[n])

\* C20: in the product phase every candidate is fetched exactly once and in
\* candidate order, each produces at most one record, the records are in
\* candidate order, the error count is the number of records with an error
\* field, and the number of records is the number of candidates minus the
\* number skipped by the in-stock-only gate; all of it for the whole
\* candidate list once the phase is over.
C20_ProductPhaseAccounting ==
    pc \in {"pages", "done"} =>
        /\ done <= Len(filtered)
        /\ pc = "done" => done = Len(filtered)
        /\ PagesFetched(trace) = SubSeq(filtered, 1, done)
        /\ NoDuplicates(RowUrls)
        /\ RowUrls = KeptCandidates(done)
        /\ errors = Cardinality({i \in 1..Len(rows) : "error" \in DOMAIN rows[i]})
        /\ Len(rows) = done - Cardinality(GateSkipped)

\* a finished run over three candidates: one failed, one was skipped by the
\* gate, one was recorded
C20_Witness ==
    /\ pc = "done"
    /\ Len(filtered) = 3
    /\ errors = 1
    /\ Cardinality(GateSkipped) = 1
    /\ Len(rows) = 2

====
